---- MODULE Spec2Model ----
(***************************************************************************)
(* Login and account lockout of the LenDen backend.                        *)
(*                                                                         *)
(* One account document of the `users` collection and a fixed set of      *)
(* concurrent POST /api/auth/login requests against it.  Every `await` of  *)
(* the login handler is a boundary between two actions: the database read  *)
(* (findByEmail), the synchronous checks that follow it, the bcrypt        *)
(* comparison, and each updateOne / save sent to the database.  A request  *)
(* works on the snapshot of the document it read; the database applies     *)
(* each update document atomically to the stored document.  The checks     *)
(* that follow the read are taken with the read, and an update document,   *)
(* which depends on the snapshot and the clock only, is built where the    *)
(* database applies it.                                                    *)
(*                                                                         *)
(* Time is counted in hours: Date.now() is the clock `now`, and the lock   *)
(* duration 2 * 60 * 60 * 1000 ms is LockTime = 2.                         *)
(***************************************************************************)
EXTENDS Integers, Sequences, FiniteSets, TLC

\* ---- bounds ----
NumRequests == 2          \* concurrent login requests
MaxTime == 3              \* the clock stops advancing here
MaxSessionTicks == 1      \* hours a run of the session machine lasts
MaxPlainLen == 2          \* longest plaintext, in UTF-16 code units
NumIVs == 2               \* how many values randomBytes(16) can return
MaxCalls == 2             \* encrypt calls on one plaintext
MaxCycles == 2            \* encrypt/decrypt cycles on one value
NumSalts == 2             \* how many salts bcrypt can draw
NumAadhaars == 2          \* how many 12-digit numbers callers supply
MaxDepth == 4             \* requests of the frontend in flight, one awaiting the next
NumUsers == 4             \* user objects the server sends to the frontend
NumTokens == 3            \* access tokens the frontend is handed

\* ---- program constants ----
MaxLoginAttempts == 5     \* User.js:196  `this.loginAttempts + 1 >= 5`
LockTime == 2             \* User.js:197  2 * 60 * 60 * 1000 ms, in hours

Requests == 1..NumRequests

NoLock == -1              \* lockUntil is undefined
NoTime == -1              \* lastLogin is null

RegisteredEmail == "user@example.com"
UnknownEmail == "nobody@example.com"
RightPassword == "Passw0rd!"
WrongPassword == "wrong"
Passwords == {RightPassword, WrongPassword}

\* bcrypt hash of a password, and bcrypt.compare against a stored hash
hashPassword(pw) == <<"bcrypt", pw>>

comparePassword(candidate, hash) == hashPassword(candidate) = hash

\* `deleted_${Date.now()}_${user.email}`
deletedEmail(t, email) == "deleted_" \o ToString(t) \o "_" \o email

\* ---- responses of the login handler ----
\* status, message and whether data.token / data.refreshToken are present;
\* lockedUntil is the error.lockedUntil of the body, which no branch of
\* login writes
NoResponse == [status |-> 0, message |-> "", tokens |-> FALSE, lockedUntil |-> NoLock]

Response(s, m, tok) ==
  [status |-> s, message |-> m, tokens |-> tok, lockedUntil |-> NoLock]

MsgNotFound == "Invalid email or password"
MsgLocked == "Account is temporarily locked due to too many failed login attempts. Please try again later."
MsgInactive == "Account is inactive. Please contact support."
MsgIncorrect == "Incorrect Password!"
MsgLoginOk == "Login successful"

\* no request body
NoRequest == [email |-> UnknownEmail, password |-> WrongPassword]

\* the `null` result of findOne
NoUser == [found |-> FALSE]

VARIABLES
  now,        \* Date.now()
  user,       \* the stored account document
  pc,         \* pc[r]: where request r stands in the login handler
  req,        \* req[r]: the body of request r
  snap,       \* snap[r]: the document request r read (its `user` object)
  res,        \* res[r]: the response of request r
  guesses     \* history: wrong-password logins answered since the last
              \* successful login or lock expiry

VARIABLES
  issued,     \* history: the tokens the server has signed so far
  rotated,    \* history: the pairs whose refresh token a successful refresh
              \* has exchanged for a new pair
  loggedOut,  \* history: the pairs whose access token a successful logout
              \* has seen
  sreq,       \* the last refresh or protected request
  sres        \* its response

sessionVars == <<issued, rotated, loggedOut, sreq, sres>>

VARIABLES
  plain,      \* the string the caller started from, as UTF-16 code units
  data,       \* the string the caller holds now
  calls,      \* the encrypt calls made on data: text, iv and result
  out,        \* the result of the last decrypt call
  cycles      \* decrypt calls made so far

cipherVars == <<plain, data, calls, out, cycles>>

VARIABLES
  call,       \* a call of a utility function: its name and its arguments
  ret,        \* what the call returned or threw
  hashes,     \* the hashes of the call's password and what comparePassword
              \* said of them
  aadhaar,    \* the aadhaarNumber path of the stored document, with the
              \* plaintexts register and the last updateAadhaar supplied
  pres,       \* the last response of register, login or a profile route
  fe,         \* ApiService of the frontend: the requests in flight, whether
              \* localStorage holds a refresh token, and what the caller got
  auth,       \* the AuthState the reducer holds
  dispatched  \* the action the reducer handled last

frontVars == <<fe, auth, dispatched>>

auxVars == <<call, ret, hashes, aadhaar, pres, frontVars>>

vars == <<now, user, pc, req, snap, res, guesses, sessionVars, cipherVars, auxVars>>

\* ---- User model ----

\* isLocked with the comparison turned round
isLocked_reversed(u, t) == u.lockUntil # NoLock /\ u.lockUntil < t

\* virtual isLocked of a document, evaluated at time t
isLocked(u, t) == u.lockUntil # NoLock /\ u.lockUntil > t

\* ---- update documents: the $set, $inc and $unset parts that touch
\* loginAttempts and lockUntil; Absent marks a path the part leaves out ----
Absent == -2

Update(setAttempts, incAttempts, setLock, unsetAttempts, unsetLock) ==
  [setAttempts |-> setAttempts, incAttempts |-> incAttempts, setLock |-> setLock,
   unsetAttempts |-> unsetAttempts, unsetLock |-> unsetLock]

\* incLoginAttempts with the threshold test `>` in place of `>=`
incLoginAttempts_lateLock(u, t) ==
  IF u.lockUntil # NoLock /\ u.lockUntil < t
  THEN Update(1, 0, Absent, FALSE, TRUE)
  ELSE Update(Absent, 1,
              IF u.loginAttempts + 1 > MaxLoginAttempts /\ ~(u.lockUntil # NoLock /\ u.lockUntil > t)
              THEN t + LockTime
              ELSE Absent,
              FALSE, FALSE)

\* the update document incLoginAttempts sends for document u at time t
incLoginAttempts(u, t) ==
  IF u.lockUntil # NoLock /\ u.lockUntil < t
  THEN Update(1, 0, Absent, FALSE, TRUE)
  ELSE Update(Absent, 1,
              IF u.loginAttempts + 1 >= MaxLoginAttempts /\ ~isLocked(u, t)
              THEN t + LockTime
              ELSE Absent,
              FALSE, FALSE)

\* resetLoginAttempts that unsets the counter and leaves lockUntil
resetLoginAttempts_keepLock == Update(Absent, 0, Absent, TRUE, FALSE)

\* the update document resetLoginAttempts sends
resetLoginAttempts == Update(Absent, 0, Absent, TRUE, TRUE)

\* updateOne: the database applies update document d to stored document u
\* in one atomic step.  An unset loginAttempts reads back as the schema
\* default 0, and $inc of an unset path starts from 0.
updateOne(u, d) ==
  [u EXCEPT
     !.loginAttempts = IF d.unsetAttempts THEN 0
                       ELSE IF d.setAttempts # Absent THEN d.setAttempts
                       ELSE @ + d.incAttempts,
     !.lockUntil = IF d.unsetLock THEN NoLock
                   ELSE IF d.setLock # Absent THEN d.setLock
                   ELSE @]

\* findByEmail: the stored document when its email matches, else null
findByEmail(email) ==
  IF user.email = email THEN [user EXCEPT !.found = TRUE] ELSE NoUser

\* ---- jwt.js ----
JWT_SECRET == "fallback-secret-change-in-production"
JWT_EXPIRE == 24          \* jwt.js:9    '24h', in hours
REFRESH_EXPIRE == 168     \* jwt.js:109  '7d', in hours

UserId == "u1"            \* user._id of the account
GhostId == "u0"           \* the _id of a document that is no longer stored

\* jwt.sign of generateToken at time t: payload userId, email, iat; options
\* expiresIn, issuer, audience.  `key` is the key the signature was made with.
generateToken(payload, t) ==
  [userId |-> payload.userId, email |-> payload.email, type |-> "",
   iat |-> t, exp |-> t + JWT_EXPIRE,
   iss |-> "lenden-app", aud |-> "lenden-users", key |-> JWT_SECRET]

\* jwt.sign of generateRefreshToken at time t
generateRefreshToken(payload, t) ==
  [userId |-> payload.userId, email |-> "", type |-> "refresh",
   iat |-> t, exp |-> t + REFRESH_EXPIRE,
   iss |-> "lenden-app", aud |-> "lenden-refresh", key |-> JWT_SECRET]

\* jwt.verify called without the audience option
jwtVerify_noAudience(tk, secret, issuer, audience, t) ==
  IF tk.key # secret THEN "JsonWebTokenError"
  ELSE IF t >= tk.exp THEN "TokenExpiredError"
  ELSE IF tk.iss # issuer THEN "JsonWebTokenError"
  ELSE "ok"

\* jwt.verify(token, secret, {issuer, audience}) at time t: the name of the
\* error it throws, or "ok".  The checks run in the library's order:
\* signature, expiry, audience, issuer.
jwtVerify(tk, secret, issuer, audience, t) ==
  IF tk.key # secret THEN "JsonWebTokenError"
  ELSE IF t >= tk.exp THEN "TokenExpiredError"
  ELSE IF tk.aud # audience THEN "JsonWebTokenError"
  ELSE IF tk.iss # issuer THEN "JsonWebTokenError"
  ELSE "ok"

\* messages are kept as their words, so that String.includes can be told
\* apart from a comparison that ignores case
includes(message, word) == \E i \in 1..Len(message) : message[i] = word

Decoded(tk) == [ok |-> TRUE, message |-> <<>>, userId |-> tk.userId]

Thrown(m) == [ok |-> FALSE, message |-> m, userId |-> ""]

\* verifyToken with ignoreExpiration: the clock is never past exp
verifyToken_ignoreExpiration(tk, t) ==
  LET e == jwtVerify(tk, JWT_SECRET, "lenden-app", "lenden-users", tk.iat) IN
  IF e = "ok" THEN Decoded(tk)
  ELSE IF e = "TokenExpiredError" THEN Thrown(<<"Token", "has", "expired">>)
  ELSE Thrown(<<"Invalid", "token">>)

\* verifyToken at time t: the decoded payload or the Error thrown
verifyToken(tk, t) ==
  LET e == jwtVerify(tk, JWT_SECRET, "lenden-app", "lenden-users", t) IN
  IF e = "ok" THEN Decoded(tk)
  ELSE IF e = "TokenExpiredError" THEN Thrown(<<"Token", "has", "expired">>)
  ELSE Thrown(<<"Invalid", "token">>)

\* verifyRefreshToken of a server that keeps a blacklist of the tokens a
\* refresh has exchanged and a logout has seen
verifyRefreshToken_blacklist(tk, t) ==
  LET e == jwtVerify(tk, JWT_SECRET, "lenden-app", "lenden-refresh", t) IN
  IF tk \in rotated \cup loggedOut
  THEN Thrown(<<"Invalid", "refresh", "token">>)
  ELSE IF e = "ok"
  THEN IF tk.type # "refresh"
       THEN Thrown(<<"Refresh", "token", "verification", "failed:",
                     "Invalid", "refresh", "token">>)
       ELSE Decoded(tk)
  ELSE IF e = "TokenExpiredError"
  THEN Thrown(<<"Refresh", "token", "has", "expired">>)
  ELSE Thrown(<<"Invalid", "refresh", "token">>)

\* verifyRefreshToken at time t; the Error thrown for a wrong type is
\* caught by the function's own catch and leaves through its last branch
verifyRefreshToken(tk, t) ==
  LET e == jwtVerify(tk, JWT_SECRET, "lenden-app", "lenden-refresh", t) IN
  IF e = "ok"
  THEN IF tk.type # "refresh"
       THEN Thrown(<<"Refresh", "token", "verification", "failed:",
                     "Invalid", "refresh", "token">>)
       ELSE Decoded(tk)
  ELSE IF e = "TokenExpiredError"
  THEN Thrown(<<"Refresh", "token", "has", "expired">>)
  ELSE Thrown(<<"Invalid", "refresh", "token">>)

\* the pair register, login and refresh sign for a document at time t
TokenPair(u, t) ==
  {generateToken([userId |-> UserId, email |-> u.email], t),
   generateRefreshToken([userId |-> UserId], t)}

\* ---- responses of refresh and of the protected routes ----
SResponse(s, m, pair) == [status |-> s, message |-> m, pair |-> pair]

NoSResponse == SResponse(0, <<>>, {})

NoSRequest == [op |-> "", token |-> generateToken([userId |-> GhostId, email |-> ""], 0),
               reached |-> FALSE]

MsgRefreshFailed == <<"Invalid", "or", "expired", "refresh", "token.", "Please", "login", "again.">>
MsgRefreshNoUser == <<"User", "not", "found", "or", "account", "inactive">>
MsgRefreshed == <<"Token", "refreshed", "successfully">>
MsgTokenExpired == <<"Token", "has", "expired.", "Please", "login", "again.">>
MsgTokenInvalid == <<"Invalid", "token.", "Please", "login", "again.">>
MsgTokenFailed == <<"Token", "verification", "failed.">>
MsgAuthNoUser == <<"User", "not", "found.", "Token", "invalid.">>
MsgAuthInactive == <<"Account", "is", "inactive.", "Please", "contact", "support.">>
MsgLoggedOut == <<"Logged", "out", "successfully">>
MsgMe == <<"user">>
MsgDeactivated == <<"Account", "deactivated", "successfully">>
MsgWrongPassword == <<"Password", "is", "incorrect">>

\* errorHandler for a plain Error: no branch matches its name, so 500
errorHandler(message) ==
  IF includes(message, "decrypt") THEN SResponse(500, <<"Data", "decryption", "failed">>, {})
  ELSE IF includes(message, "encrypt") THEN SResponse(500, <<"Data", "encryption", "failed">>, {})
  ELSE SResponse(500, message, {})

\* findById that does not return a locked document
findById_skipsLocked(id) ==
  IF id = UserId /\ ~isLocked(user, now) THEN [user EXCEPT !.found = TRUE] ELSE NoUser

\* findById: the stored document when the id is the account's, else null
findById(id) == IF id = UserId THEN [user EXCEPT !.found = TRUE] ELSE NoUser

\* ---- encryption.js ----

\* the key the process was started with: 32 bytes
ENCRYPTION_KEY == [i \in 1..32 |-> ((7 * i) + 3) % 256]

BlockSize == 16           \* the block and IV length of aes-256-cbc, in bytes

\* the code units plaintexts are made of: "1", "e" with an acute accent,
\* and the two halves of the surrogate pair of U+1F600
CodeUnits == {49, 233, 55357, 56832}

ReplacementChar == 65533  \* U+FFFD

isHighSurrogate(c) == 55296 <= c /\ c <= 56319

isLowSurrogate(c) == 56320 <= c /\ c <= 57343

\* the strings a caller may pass to encrypt, the empty one included
Plaintexts == UNION {[1..n -> CodeUnits] : n \in 0..MaxPlainLen}

\* the values crypto.randomBytes(16) can return
IVs == {[i \in 1..BlockSize |-> ((37 * k) + i) % 256] : k \in 1..NumIVs}

RECURSIVE xor(_, _, _)
\* a ^ b on the low n bits
xor(a, b, n) ==
  IF n = 0 THEN 0
  ELSE (((a % 2) + (b % 2)) % 2) + (2 * xor(a \div 2, b \div 2, n - 1))

xorBlock(a, b) == [i \in 1..BlockSize |-> xor(a[i], b[i], 8)]

\* String.prototype.isWellFormed: no surrogate without its partner
isWellFormed(str) ==
  \A i \in 1..Len(str) :
    /\ isHighSurrogate(str[i]) => (i < Len(str) /\ isLowSurrogate(str[i + 1]))
    /\ isLowSurrogate(str[i]) => (i > 1 /\ isHighSurrogate(str[i - 1]))

RECURSIVE utf8Encode(_)
\* the bytes of a string in 'utf8': a surrogate pair becomes the four bytes
\* of its code point, a surrogate without its partner becomes U+FFFD
utf8Encode(str) ==
  IF str = <<>> THEN <<>>
  ELSE LET c == Head(str) IN
    IF c < 128 THEN <<c>> \o utf8Encode(Tail(str))
    ELSE IF c < 2048
    THEN <<192 + (c \div 64), 128 + (c % 64)>> \o utf8Encode(Tail(str))
    ELSE IF isHighSurrogate(c) /\ Len(str) >= 2 /\ isLowSurrogate(str[2])
    THEN LET cp == 65536 + ((c - 55296) * 1024) + (str[2] - 56320) IN
         <<240 + (cp \div 262144), 128 + ((cp \div 4096) % 64),
           128 + ((cp \div 64) % 64), 128 + (cp % 64)>>
           \o utf8Encode(Tail(Tail(str)))
    ELSE IF isHighSurrogate(c) \/ isLowSurrogate(c)
    THEN <<239, 191, 189>> \o utf8Encode(Tail(str))
    ELSE <<224 + (c \div 4096), 128 + ((c \div 64) % 64), 128 + (c % 64)>>
           \o utf8Encode(Tail(str))

isContinuation(b, i) == i <= Len(b) /\ 128 <= b[i] /\ b[i] < 192

RECURSIVE utf8Decode(_)
\* the string a byte sequence reads as in 'utf8'; a byte that starts no
\* sequence reads as U+FFFD
utf8Decode(b) ==
  IF b = <<>> THEN <<>>
  ELSE LET c == b[1]
           rest(n) == utf8Decode(SubSeq(b, n + 1, Len(b)))
       IN
    IF c < 128 THEN <<c>> \o rest(1)
    ELSE IF 192 <= c /\ c < 224 /\ isContinuation(b, 2)
    THEN <<((c - 192) * 64) + (b[2] - 128)>> \o rest(2)
    ELSE IF 224 <= c /\ c < 240 /\ isContinuation(b, 2) /\ isContinuation(b, 3)
    THEN <<((c - 224) * 4096) + ((b[2] - 128) * 64) + (b[3] - 128)>> \o rest(3)
    ELSE IF 240 <= c /\ c < 248 /\ isContinuation(b, 2) /\ isContinuation(b, 3)
              /\ isContinuation(b, 4)
    THEN LET cp == ((c - 240) * 262144) + ((b[2] - 128) * 4096)
                     + ((b[3] - 128) * 64) + (b[4] - 128)
         IN <<55296 + ((cp - 65536) \div 1024), 56320 + ((cp - 65536) % 1024)>>
              \o rest(4)
    ELSE <<ReplacementChar>> \o rest(1)

HexDigits == <<"0", "1", "2", "3", "4", "5", "6", "7",
               "8", "9", "a", "b", "c", "d", "e", "f">>

isHexDigit(ch) == ch \in {HexDigits[i] : i \in 1..16}

hexValue(ch) == (CHOOSE i \in 1..16 : HexDigits[i] = ch) - 1

\* buffer.toString('hex'): two digits per byte, as a sequence of characters
toHex(bytes) ==
  [k \in 1..(2 * Len(bytes)) |->
     LET byte == bytes[(k + 1) \div 2] IN
     HexDigits[(IF k % 2 = 1 THEN byte \div 16 ELSE byte % 16) + 1]]

\* Buffer.from(h, 'hex'): the bytes of the leading pairs of hex digits
fromHex(h) ==
  LET n == IF \A k \in 1..Len(h) : isHexDigit(h[k])
           THEN Len(h) \div 2
           ELSE CHOOSE m \in 0..(Len(h) \div 2) :
                  /\ \A k \in 1..(2 * m) : isHexDigit(h[k])
                  /\ \A m2 \in (m + 1)..(Len(h) \div 2) :
                       \E k \in 1..(2 * m2) : ~isHexDigit(h[k])
  IN [k \in 1..n |-> (16 * hexValue(h[(2 * k) - 1])) + hexValue(h[2 * k])]

\* the block cipher under the key: a keyed permutation of the blocks
encryptBlock(b) ==
  [i \in 1..BlockSize |->
     ((5 * xor(b[(i % BlockSize) + 1], ENCRYPTION_KEY[i], 8))
        + ENCRYPTION_KEY[BlockSize + i]) % 256]

\* its inverse
decryptBlock(c) ==
  [j \in 1..BlockSize |->
     LET i == ((j + BlockSize - 2) % BlockSize) + 1 IN
     xor((205 * (c[i] + 256 - ENCRYPTION_KEY[BlockSize + i])) % 256,
         ENCRYPTION_KEY[i], 8)]

\* PKCS#7: 1 to 16 bytes, each the number of bytes added
pad(bytes) ==
  LET n == BlockSize - (Len(bytes) % BlockSize) IN
  bytes \o [i \in 1..n |-> n]

padOk(bytes) ==
  /\ Len(bytes) > 0
  /\ LET n == bytes[Len(bytes)] IN
       /\ 1 <= n /\ n <= BlockSize /\ n <= Len(bytes)
       /\ \A i \in (Len(bytes) - n + 1)..Len(bytes) : bytes[i] = n

unpad(bytes) == SubSeq(bytes, 1, Len(bytes) - bytes[Len(bytes)])

RECURSIVE cbcEncrypt(_, _)
\* CBC: each block is mixed with the block before it, the first with the iv
cbcEncrypt(bytes, prev) ==
  IF bytes = <<>> THEN <<>>
  ELSE LET c == encryptBlock(xorBlock(SubSeq(bytes, 1, BlockSize), prev)) IN
       c \o cbcEncrypt(SubSeq(bytes, BlockSize + 1, Len(bytes)), c)

RECURSIVE cbcDecrypt(_, _)
cbcDecrypt(bytes, prev) ==
  IF bytes = <<>> THEN <<>>
  ELSE LET c == SubSeq(bytes, 1, BlockSize) IN
       xorBlock(decryptBlock(c), prev)
         \o cbcDecrypt(SubSeq(bytes, BlockSize + 1, Len(bytes)), c)

Returned(v) == [ok |-> TRUE, value |-> v, message |-> <<>>]

Threw(m) == [ok |-> FALSE, value |-> <<>>, message |-> m]

NoResult == [ok |-> FALSE, value |-> <<>>, message |-> <<>>]

\* encrypt that ciphers and labels every blob with an all-zero IV
encrypt_fixedIv(text, iv) ==
  IF text = <<>>
  THEN Threw(<<"Text", "to", "encrypt", "cannot", "be", "empty">>)
  ELSE LET zero == [i \in 1..BlockSize |-> 0] IN
       Returned(toHex(zero) \o <<":">> \o toHex(cbcEncrypt(pad(utf8Encode(text)), zero)))

\* encrypt(text) when randomBytes returns iv: hex(iv) ':' hex(ciphertext)
encrypt(text, iv) ==
  IF text = <<>>
  THEN Threw(<<"Text", "to", "encrypt", "cannot", "be", "empty">>)
  ELSE Returned(toHex(iv) \o <<":">> \o toHex(cbcEncrypt(pad(utf8Encode(text)), iv)))

\* the index of the first ':' of blob from position `from` on, or
\* Len(blob) + 1
colonAfter(blob, from) ==
  CHOOSE p \in from..(Len(blob) + 1) :
    /\ p = Len(blob) + 1 \/ blob[p] = ":"
    /\ \A q \in from..(p - 1) : blob[q] # ":"

MsgFormat == <<"Invalid", "encrypted", "text", "format">>

MsgFailed == <<"Failed", "to", "decrypt", "data:">>

\* decrypt that deciphers with an all-zero IV instead of the blob's
decrypt_zeroIv(blob) ==
  IF blob = <<>> \/ ~includes(blob, ":") THEN Threw(MsgFormat)
  ELSE LET p == colonAfter(blob, 1)
           ivHex == SubSeq(blob, 1, p - 1)
           encrypted == SubSeq(blob, p + 1, colonAfter(blob, p + 1) - 1)
           iv == [i \in 1..BlockSize |-> 0]
           ct == fromHex(encrypted)
           bytes == cbcDecrypt(ct, iv)
       IN
    IF ivHex = <<>> \/ encrypted = <<>> THEN Threw(MsgFailed \o MsgFormat)
    ELSE IF Len(fromHex(ivHex)) # BlockSize
    THEN Threw(MsgFailed \o <<"Invalid", "initialization", "vector">>)
    ELSE IF Len(ct) = 0 \/ Len(ct) % BlockSize # 0
    THEN Threw(MsgFailed \o <<"wrong", "final", "block", "length">>)
    ELSE IF ~padOk(bytes) THEN Threw(MsgFailed \o <<"bad", "decrypt">>)
    ELSE Returned(utf8Decode(unpad(bytes)))

\* decrypt(blob): the string, or the Error thrown
decrypt(blob) ==
  IF blob = <<>> \/ ~includes(blob, ":") THEN Threw(MsgFormat)
  ELSE LET p == colonAfter(blob, 1)
           ivHex == SubSeq(blob, 1, p - 1)
           encrypted == SubSeq(blob, p + 1, colonAfter(blob, p + 1) - 1)
           iv == fromHex(ivHex)
           ct == fromHex(encrypted)
           bytes == cbcDecrypt(ct, iv)
       IN
    IF ivHex = <<>> \/ encrypted = <<>> THEN Threw(MsgFailed \o MsgFormat)
    ELSE IF Len(iv) # BlockSize
    THEN Threw(MsgFailed \o <<"Invalid", "initialization", "vector">>)
    ELSE IF Len(ct) = 0 \/ Len(ct) % BlockSize # 0
    THEN Threw(MsgFailed \o <<"wrong", "final", "block", "length">>)
    ELSE IF ~padOk(bytes) THEN Threw(MsgFailed \o <<"bad", "decrypt">>)
    ELSE Returned(utf8Decode(unpad(bytes)))

\* ---- values and calls of the utility functions ----

\* a JavaScript value: a string with its characters, or null, undefined or
\* a number
JsString(str) == [type |-> "string", str |-> str]

JsNull == [type |-> "null", str |-> <<>>]

JsUndefined == [type |-> "undefined", str |-> <<>>]

JsNumber == [type |-> "number", str |-> <<>>]

\* !v is false
truthy(v) == v.type = "number" \/ (v.type = "string" /\ v.str # <<>>)

\* str.split(':').length
splitLength(str) == Cardinality({i \in 1..Len(str) : str[i] = ":"}) + 1

\* isValidEncryptedFormat, lines 79-83
isValidEncryptedFormat(v) ==
  /\ v.type = "string"
  /\ includes(v.str, ":")
  /\ splitLength(v.str) = 2

RECURSIVE bitOr(_, _, _)
\* a | b on the low n bits
bitOr(a, b, n) ==
  IF n = 0 THEN 0
  ELSE (IF (a % 2) + (b % 2) > 0 THEN 1 ELSE 0)
         + (2 * bitOr(a \div 2, b \div 2, n - 1))

\* charCodeAt for the characters secureCompare is called with
charCode(ch) == CASE ch = "a" -> 97 [] ch = "A" -> 65 [] ch = "b" -> 98

RECURSIVE compareLoop(_, _, _, _)
\* lines 96-99: result |= a.charCodeAt(i) ^ b.charCodeAt(i), from index i on
compareLoop(a, b, i, result) ==
  IF i > Len(a) THEN result
  ELSE compareLoop(a, b, i + 1,
                   bitOr(result, xor(charCode(a[i]), charCode(b[i]), 16), 16))

\* secureCompare, lines 91-102
secureCompare(a, b) ==
  IF ~truthy(a) \/ ~truthy(b) \/ Len(a.str) # Len(b.str) THEN FALSE
  ELSE compareLoop(a.str, b.str, 1, 0) = 0

\* the fallback of line 8
DefaultKey == "default-32-char-key-change-this!!"

KeyLength == 32           \* encryption.js:12

\* line 8: process.env.ENCRYPTION_SECRET || fallback; env is "" when the
\* variable is unset or empty
configuredKey(env) == IF env = "" THEN DefaultKey ELSE env

\* what a call leaves behind: whether it has returned, whether it returned
\* or threw, the string or boolean returned, the message thrown
Ret(ok, value, flag, message) ==
  [done |-> TRUE, ok |-> ok, value |-> value, flag |-> flag, message |-> message]

NotReturned ==
  [done |-> FALSE, ok |-> FALSE, value |-> <<>>, flag |-> FALSE, message |-> <<>>]

MsgKeyLength == <<"Encryption", "key", "must", "be", "exactly", "32",
                  "characters", "long">>

\* lines 8-14: loading the module with ENCRYPTION_SECRET = env
loadModule(env) ==
  IF Len(configuredKey(env)) # KeyLength
  THEN Ret(FALSE, <<>>, FALSE, MsgKeyLength)
  ELSE Ret(TRUE, <<>>, FALSE, <<>>)

Call(fn, a, b, env) == [fn |-> fn, a |-> a, b |-> b, env |-> env]

NoCall == Call("", JsUndefined, JsUndefined, "")

\* ---- password.js ----

BcryptMaxBytes == 72      \* bcrypt reads the first 72 bytes of a password

MinPasswordLength == 6    \* password.js:20

\* the salts bcrypt.hash can draw
Salts == 1..NumSalts

\* bcrypt.hash(password) when the salt drawn is salt: the salt and a digest
\* of the salt and the first 72 bytes, that is one-to-one in both
bcryptHash(password, salt) ==
  [salt |-> salt,
   digest |-> SubSeq(password, 1, IF Len(password) < BcryptMaxBytes
                                  THEN Len(password) ELSE BcryptMaxBytes)]

\* bcrypt.compare: hash the candidate with the salt of the stored hash
bcryptCompare(password, hashed) == bcryptHash(password, hashed.salt) = hashed

NoHash == [salt |-> 0, digest |-> <<>>]

\* hashPassword, lines 15-30, when bcrypt draws salt: the hash, or NoHash
\* when it throws
hashPasswordSalted(password, salt) ==
  IF ~truthy(password) THEN NoHash
  ELSE IF Len(password.str) < MinPasswordLength THEN NoHash
  ELSE bcryptHash(password.str, salt)

\* comparePassword, lines 38-50, against a stored bcrypt hash
comparePasswordHashed(password, hashed) ==
  IF ~truthy(password) \/ hashed = NoHash THEN FALSE
  ELSE bcryptCompare(password.str, hashed)

NoHashes == [h1 |-> NoHash, h2 |-> NoHash,
             same1 |-> FALSE, same2 |-> FALSE, other1 |-> FALSE]

\* ---- the aadhaarNumber path of the User model ----

\* the code unit of a character of a blob or of a number, and back
unitOf(ch) ==
  IF ch = ":" THEN 58
  ELSE IF hexValue(ch) < 10 THEN 48 + hexValue(ch) ELSE 87 + hexValue(ch)

charOf(u) ==
  IF u = 58 THEN ":"
  ELSE IF 48 <= u /\ u <= 57 THEN HexDigits[u - 47]
  ELSE IF 97 <= u /\ u <= 102 THEN HexDigits[u - 86]
  ELSE "?"

toUnits(str) == [i \in 1..Len(str) |-> unitOf(str[i])]

toChars(units) == [i \in 1..Len(units) |-> charOf(units[i])]

\* /^\d{12}$/.test(str)
isTwelveDigits(str) ==
  /\ Len(str) = 12
  /\ \A i \in 1..12 : isHexDigit(str[i]) /\ hexValue(str[i]) < 10

\* pre('save') that encrypts aadhaarNumber of a new document only
preSave_newOnly(value, isNew, modified, iv) ==
  IF isNew /\ ~includes(value, ":")
  THEN encrypt(toUnits(value), iv).value
  ELSE value

\* pre('save'), lines 143-162, for the aadhaarNumber path: the value the
\* save writes when the path holds `value` and encrypt draws iv
preSave(value, isNew, modified, iv) ==
  IF (isNew \/ modified) /\ ~includes(value, ":")
  THEN encrypt(toUnits(value), iv).value
  ELSE value

\* getDecryptedAadhaar, lines 165-171: the number, or <<>> when it throws
getDecryptedAadhaar(stored) ==
  LET x == decrypt(stored) IN IF x.ok THEN toChars(x.value) ELSE <<>>

NoAadhaar == [stored |-> <<>>, first |-> <<>>, supplied |-> <<>>]

PResponse(op, status) == [op |-> op, status |-> status]

NoPResponse == PResponse("", 0)

NewPassword == "N3wPassw0rd!"

\* ---- frontend: ApiService and the auth reducer ----

\* a request of the axios instance: its config (url, _retry) and where its
\* promise stands: "sent" waits for the server, "refreshing" and "retrying"
\* wait in the response interceptor for the request above it
Frame(url, retry, at) == [url |-> url, retry |-> retry, at |-> at]

UrlMe == "/auth/me"

UrlLogin == "/auth/login"

UrlRefresh == "/auth/refresh"

\* what callers of the ApiService request
CallerUrls == {UrlMe, UrlLogin}

Statuses == {200, 401, 500}

NoFrontend ==
  [stack |-> <<>>, stored |-> FALSE, signal |-> "none", outcome |-> "none",
   refreshCalls |-> 0, retries |-> 0, location |-> "/"]

\* a user object of a response body
Users == 1..NumUsers

\* an access token
Tokens == 1..NumTokens

Null == 0

\* initialState, lines 56-61
initialState ==
  [user |-> Null, token |-> Null, isAuthenticated |-> FALSE, isLoading |-> TRUE]

AuthAction(type, u, tk, flag) == [type |-> type, user |-> u, token |-> tk, flag |-> flag]

NoAction == AuthAction("", Null, Null, FALSE)

\* authReducer whose LOGOUT only stops the spinner
authReducer_logoutKeepsSession(state, action) ==
  CASE action.type = "AUTH_START" -> [state EXCEPT !.isLoading = TRUE]
    [] action.type = "AUTH_SUCCESS" ->
         [state EXCEPT !.user = action.user, !.token = action.token,
                       !.isAuthenticated = TRUE, !.isLoading = FALSE]
    [] action.type = "AUTH_FAILURE" ->
         [state EXCEPT !.user = Null, !.token = Null,
                       !.isAuthenticated = FALSE, !.isLoading = FALSE]
    [] action.type = "LOGOUT" -> [state EXCEPT !.isLoading = FALSE]
    [] action.type = "UPDATE_USER" -> [state EXCEPT !.user = action.user]
    [] action.type = "SET_LOADING" -> [state EXCEPT !.isLoading = action.flag]
    [] OTHER -> state

\* authReducer, lines 63-110
authReducer(state, action) ==
  CASE action.type = "AUTH_START" -> [state EXCEPT !.isLoading = TRUE]
    [] action.type = "AUTH_SUCCESS" ->
         [state EXCEPT !.user = action.user, !.token = action.token,
                       !.isAuthenticated = TRUE, !.isLoading = FALSE]
    [] action.type = "AUTH_FAILURE" ->
         [state EXCEPT !.user = Null, !.token = Null,
                       !.isAuthenticated = FALSE, !.isLoading = FALSE]
    [] action.type = "LOGOUT" -> [initialState EXCEPT !.isLoading = FALSE]
    [] action.type = "UPDATE_USER" -> [state EXCEPT !.user = action.user]
    [] action.type = "SET_LOADING" -> [state EXCEPT !.isLoading = action.flag]
    [] OTHER -> state

\* no utility function has been called and no profile route has run; the
\* registration of the account is not followed here
AuxIdle ==
  /\ call = NoCall
  /\ ret = NotReturned
  /\ hashes = NoHashes
  /\ aadhaar = NoAadhaar
  /\ pres = NoPResponse
  /\ fe = NoFrontend
  /\ auth = initialState
  /\ dispatched = NoAction

\* ---- initial state: one registered, active account; no request ----
Init ==
  /\ now = 0
  /\ user = [found |-> TRUE,
             email |-> RegisteredEmail,
             password |-> hashPassword(RightPassword),
             status |-> "active",
             loginAttempts |-> 0,
             lockUntil |-> NoLock,
             lastLogin |-> NoTime]
  /\ pc = [r \in Requests |-> "idle"]
  /\ req = [r \in Requests |-> NoRequest]
  /\ snap = [r \in Requests |-> NoUser]
  /\ res = [r \in Requests |-> NoResponse]
  /\ guesses = 0
  /\ issued = TokenPair(user, 0)
  /\ rotated = {}
  /\ loggedOut = {}
  /\ sreq = NoSRequest
  /\ sres = NoSResponse
  /\ plain = <<>>
  /\ data = <<>>
  /\ calls = <<>>
  /\ out = NoResult
  /\ cycles = 0
  /\ AuxIdle

\* request r ends with response x; its locals are dropped
Respond(r, x) ==
  /\ pc' = [pc EXCEPT ![r] = "done"]
  /\ res' = [res EXCEPT ![r] = x]
  /\ req' = [req EXCEPT ![r] = NoRequest]
  /\ snap' = [snap EXCEPT ![r] = NoUser]

Emails == {RegisteredEmail, UnknownEmail, user.email}

\* login that turns a request away as locked whenever lockUntil is set
LoginFindWith_lockNeverExpires(r, e, pw) ==
  /\ pc[r] \in {"idle", "done"}
  /\ LET u == findByEmail(e) IN
     IF ~u.found
     THEN Respond(r, Response(401, MsgNotFound, FALSE))
     ELSE IF u.lockUntil # NoLock
     THEN Respond(r, Response(423, MsgLocked, FALSE))
     ELSE IF u.status # "active"
     THEN Respond(r, Response(401, MsgInactive, FALSE))
     ELSE /\ req' = [req EXCEPT ![r] = [email |-> e, password |-> pw]]
          /\ snap' = [snap EXCEPT ![r] = u]
          /\ pc' = [pc EXCEPT ![r] = "comparing"]
          /\ res' = [res EXCEPT ![r] = NoResponse]
  /\ UNCHANGED <<now, user, guesses, sessionVars, cipherVars, auxVars>>

\* login, lines 122-158: a request with email e and password pw arrives,
\* findByEmail reads the document, and the handler answers not found,
\* locked or inactive, or starts bcrypt
LoginFindWith(r, e, pw) ==
  /\ pc[r] \in {"idle", "done"}
  /\ LET u == findByEmail(e) IN
     IF ~u.found
     THEN Respond(r, Response(401, MsgNotFound, FALSE))
     ELSE IF isLocked(u, now)
     THEN Respond(r, Response(423, MsgLocked, FALSE))
     ELSE IF u.status # "active"
     THEN Respond(r, Response(401, MsgInactive, FALSE))
     ELSE /\ req' = [req EXCEPT ![r] = [email |-> e, password |-> pw]]
          /\ snap' = [snap EXCEPT ![r] = u]
          /\ pc' = [pc EXCEPT ![r] = "comparing"]
          /\ res' = [res EXCEPT ![r] = NoResponse]
  /\ UNCHANGED <<now, user, guesses, sessionVars, cipherVars, auxVars>>

LoginFind(r) == \E e \in Emails, pw \in Passwords : LoginFindWith(r, e, pw)

\* login, lines 158-167: bcrypt says no; incLoginAttempts builds the update
\* document from the request's own snapshot, the database applies it, 401
LoginIncrement(r) ==
  /\ pc[r] = "comparing"
  /\ ~comparePassword(req[r].password, snap[r].password)
  /\ user' = updateOne(user, incLoginAttempts(snap[r], now))
  /\ Respond(r, Response(401, MsgIncorrect, FALSE))
  /\ guesses' = IF guesses > MaxLoginAttempts THEN guesses ELSE guesses + 1
  /\ UNCHANGED <<now, sessionVars, cipherVars, auxVars>>

\* login, lines 169-172: bcrypt says yes and the snapshot counts failures;
\* the database applies resetLoginAttempts
LoginReset(r) ==
  /\ pc[r] = "comparing"
  /\ comparePassword(req[r].password, snap[r].password)
  /\ snap[r].loginAttempts > 0
  /\ user' = updateOne(user, resetLoginAttempts)
  /\ pc' = [pc EXCEPT ![r] = "saving"]
  /\ UNCHANGED <<now, req, snap, res, guesses, sessionVars, cipherVars, auxVars>>

\* login, lines 169-170: bcrypt says yes and the snapshot counts no failure
LoginNoReset(r) ==
  /\ pc[r] = "comparing"
  /\ comparePassword(req[r].password, snap[r].password)
  /\ ~(snap[r].loginAttempts > 0)
  /\ pc' = [pc EXCEPT ![r] = "saving"]
  /\ UNCHANGED <<now, user, req, snap, res, guesses, sessionVars, cipherVars, auxVars>>

\* login, lines 174-200: save writes the modified path lastLogin, tokens
\* are generated and the 200 response is sent
LoginSave(r) ==
  /\ pc[r] = "saving"
  /\ user' = [user EXCEPT !.lastLogin = now]
  /\ Respond(r, Response(200, MsgLoginOk, TRUE))
  /\ guesses' = 0
  /\ UNCHANGED <<now, sessionVars, cipherVars, auxVars>>

\* deleteAccount of an authenticated, active user with the right password:
\* save writes status and the renamed email
DeleteAccount ==
  /\ user.status = "active"
  /\ user' = [user EXCEPT !.status = "inactive",
                          !.email = deletedEmail(now, user.email)]
  /\ UNCHANGED <<now, pc, req, snap, res, guesses, sessionVars, cipherVars, auxVars>>

\* the clock advances; a lock that expires ends the current run of guesses
Tick ==
  /\ now < MaxTime
  /\ now' = now + 1
  /\ guesses' = IF user.lockUntil # NoLock /\ user.lockUntil > now
                   /\ user.lockUntil <= now + 1
                THEN 0 ELSE guesses
  /\ UNCHANGED <<user, pc, req, snap, res, sessionVars, cipherVars, auxVars>>

Next ==
  \/ \E r \in Requests : LoginFind(r)
  \/ \E r \in Requests : LoginIncrement(r)
  \/ \E r \in Requests : LoginReset(r)
  \/ \E r \in Requests : LoginNoReset(r)
  \/ \E r \in Requests : LoginSave(r)
  \/ DeleteAccount
  \/ Tick

Spec == Init /\ [][Next]_vars

\* no login request is between its database read and its response
Quiescent == \A r \in Requests : pc[r] \in {"idle", "done"}

\* requests served one at a time
SeqNext ==
  \/ \E r \in Requests : Quiescent /\ LoginFind(r)
  \/ \E r \in Requests : LoginIncrement(r)
  \/ \E r \in Requests : LoginReset(r)
  \/ \E r \in Requests : LoginNoReset(r)
  \/ \E r \in Requests : LoginSave(r)
  \/ DeleteAccount
  \/ Tick

SeqSpec == Init /\ [][SeqNext]_vars

\* what is left of request r's handler after findByEmail resolved
Continue(r) ==
  LoginIncrement(r) \/ LoginReset(r) \/ LoginNoReset(r) \/ LoginSave(r)

\* requests served one at a time, and the event loop resumes every handler
\* whose awaited promise has settled
FairSeqSpec == SeqSpec /\ \A r \in Requests : WF_vars(Continue(r))

TypeOK ==
  /\ now \in 0..MaxTime
  /\ user.loginAttempts \in Nat
  /\ user.status \in {"active", "inactive", "suspended"}
  /\ \A r \in Requests :
       pc[r] \in {"idle", "comparing", "saving", "done"}

\* ---- refresh and the protected routes ----

\* the tokens a client can present: the ones the server signed, the same
\* claims signed with another key, and tokens of a document that has gone
SessionTokens ==
  issued
  \cup {[tk EXCEPT !.key = "attacker-key"] : tk \in TokenPair([email |-> RegisteredEmail], 0)}
  \cup {generateToken([userId |-> GhostId, email |-> UnknownEmail], 0),
        generateRefreshToken([userId |-> GhostId], 0)}

\* the pair token tk was signed in: its access and its refresh token
SessionPair(tk) ==
  {x \in issued : x.userId = tk.userId /\ x.iat = tk.iat}

\* a request: its route, its token, and whether it got past authenticate
SRequest(op, tk, reached) == [op |-> op, token |-> tk, reached |-> reached]

\* refreshToken that does not look at user.status
RefreshWith_noStatusCheck(tk) ==
  LET v == verifyRefreshToken(tk, now)
      u == findById(v.userId)
      pair == TokenPair(u, now)
  IN
  /\ sreq' = SRequest("refresh", tk, FALSE)
  /\ IF ~v.ok
     THEN /\ sres' = IF includes(v.message, "expired") \/ includes(v.message, "invalid")
                     THEN SResponse(401, MsgRefreshFailed, {})
                     ELSE errorHandler(v.message)
          /\ UNCHANGED <<issued, rotated>>
     ELSE IF ~u.found
     THEN /\ sres' = SResponse(401, MsgRefreshNoUser, {})
          /\ UNCHANGED <<issued, rotated>>
     ELSE /\ sres' = SResponse(200, MsgRefreshed, pair)
          /\ issued' = issued \cup pair
          /\ rotated' = rotated \cup SessionPair(tk)
  /\ UNCHANGED <<now, user, pc, req, snap, res, guesses, cipherVars, loggedOut, auxVars>>

\* refreshToken, lines 212-268, with token tk in the body
RefreshWith(tk) ==
  LET v == verifyRefreshToken(tk, now)
      u == findById(v.userId)
      pair == TokenPair(u, now)
  IN
  /\ sreq' = SRequest("refresh", tk, FALSE)
  /\ IF ~v.ok
     THEN /\ sres' = IF includes(v.message, "expired") \/ includes(v.message, "invalid")
                     THEN SResponse(401, MsgRefreshFailed, {})
                     ELSE errorHandler(v.message)
          /\ UNCHANGED <<issued, rotated>>
     ELSE IF ~u.found \/ u.status # "active"
     THEN /\ sres' = SResponse(401, MsgRefreshNoUser, {})
          /\ UNCHANGED <<issued, rotated>>
     ELSE /\ sres' = SResponse(200, MsgRefreshed, pair)
          /\ issued' = issued \cup pair
          /\ rotated' = rotated \cup SessionPair(tk)
  /\ UNCHANGED <<now, user, pc, req, snap, res, guesses, cipherVars, loggedOut, auxVars>>

Refresh == \E tk \in SessionTokens : RefreshWith(tk)

ProtectedOps == {"logout", "me", "deleteAccount"}

\* authenticate that does not look at user.status, then the handler
ProtectedWith_noStatusCheck(tk, op, pw) ==
  LET v == verifyToken(tk, now)
      u == findById(v.userId)
  IN
  IF ~v.ok
  THEN /\ sreq' = SRequest(op, tk, FALSE)
       /\ sres' = SResponse(401,
                     IF includes(v.message, "expired") THEN MsgTokenExpired
                     ELSE IF includes(v.message, "invalid") THEN MsgTokenInvalid
                     ELSE MsgTokenFailed, {})
       /\ UNCHANGED <<now, user, pc, req, snap, res, guesses, cipherVars, issued, rotated, loggedOut, auxVars>>
  ELSE IF ~u.found
  THEN /\ sreq' = SRequest(op, tk, FALSE)
       /\ sres' = SResponse(401, MsgAuthNoUser, {})
       /\ UNCHANGED <<now, user, pc, req, snap, res, guesses, cipherVars, issued, rotated, loggedOut, auxVars>>
  ELSE /\ sreq' = SRequest(op, tk, TRUE)
       /\ CASE op = "logout" ->
                 /\ sres' = SResponse(200, MsgLoggedOut, {})
                 /\ loggedOut' = loggedOut \cup SessionPair(tk)
                 /\ UNCHANGED user
            [] op = "me" ->
                 /\ sres' = SResponse(200, MsgMe, {})
                 /\ UNCHANGED <<user, loggedOut>>
            [] op = "deleteAccount" ->
                 IF ~comparePassword(pw, u.password)
                 THEN /\ sres' = SResponse(401, MsgWrongPassword, {})
                      /\ UNCHANGED <<user, loggedOut>>
                 ELSE /\ sres' = SResponse(200, MsgDeactivated, {})
                      /\ user' = [user EXCEPT !.status = "inactive",
                                              !.email = deletedEmail(now, user.email)]
                      /\ UNCHANGED loggedOut
       /\ UNCHANGED <<now, pc, req, snap, res, guesses, issued, rotated, cipherVars, auxVars>>

\* authenticate (part_005, lines 117-175) with bearer token tk, then the
\* handler of the route: logout, getMe or deleteAccount with password pw
ProtectedWith(tk, op, pw) ==
  LET v == verifyToken(tk, now)
      u == findById(v.userId)
  IN
  IF ~v.ok
  THEN /\ sreq' = SRequest(op, tk, FALSE)
       /\ sres' = SResponse(401,
                     IF includes(v.message, "expired") THEN MsgTokenExpired
                     ELSE IF includes(v.message, "invalid") THEN MsgTokenInvalid
                     ELSE MsgTokenFailed, {})
       /\ UNCHANGED <<now, user, pc, req, snap, res, guesses, cipherVars, issued, rotated, loggedOut, auxVars>>
  ELSE IF ~u.found
  THEN /\ sreq' = SRequest(op, tk, FALSE)
       /\ sres' = SResponse(401, MsgAuthNoUser, {})
       /\ UNCHANGED <<now, user, pc, req, snap, res, guesses, cipherVars, issued, rotated, loggedOut, auxVars>>
  ELSE IF u.status # "active"
  THEN /\ sreq' = SRequest(op, tk, FALSE)
       /\ sres' = SResponse(401, MsgAuthInactive, {})
       /\ UNCHANGED <<now, user, pc, req, snap, res, guesses, cipherVars, issued, rotated, loggedOut, auxVars>>
  ELSE /\ sreq' = SRequest(op, tk, TRUE)
       /\ CASE op = "logout" ->
                 /\ sres' = SResponse(200, MsgLoggedOut, {})
                 /\ loggedOut' = loggedOut \cup SessionPair(tk)
                 /\ UNCHANGED user
            [] op = "me" ->
                 /\ sres' = SResponse(200, MsgMe, {})
                 /\ UNCHANGED <<user, loggedOut>>
            [] op = "deleteAccount" ->
                 IF ~comparePassword(pw, u.password)
                 THEN /\ sres' = SResponse(401, MsgWrongPassword, {})
                      /\ UNCHANGED <<user, loggedOut>>
                 ELSE /\ sres' = SResponse(200, MsgDeactivated, {})
                      /\ user' = [user EXCEPT !.status = "inactive",
                                              !.email = deletedEmail(now, user.email)]
                      /\ UNCHANGED loggedOut
       /\ UNCHANGED <<now, pc, req, snap, res, guesses, issued, rotated, cipherVars, auxVars>>

\* only deleteAccount reads a password from the body
Protected ==
  \E tk \in SessionTokens, op \in ProtectedOps :
    \E pw \in IF op = "deleteAccount" THEN Passwords ELSE {RightPassword} :
      ProtectedWith(tk, op, pw)

\* the times at which a run of the session machine may start: in the last
\* hour of the access token signed at registration, and in the last hour of
\* the refresh token signed then
SessionStarts == {JWT_EXPIRE - 1, REFRESH_EXPIRE - 1}

\* the clock advances, for MaxSessionTicks hours from the start of the run
SessionTick ==
  /\ \E b \in SessionStarts : b <= now /\ now < b + MaxSessionTicks
  /\ now' = now + 1
  /\ UNCHANGED <<user, pc, req, snap, res, guesses, sessionVars, cipherVars, auxVars>>

\* the account was registered at time 0 and the client holds the pair
\* signed then; the run starts at one of SessionStarts
SessionInit ==
  /\ now \in SessionStarts
  /\ user = [found |-> TRUE,
             email |-> RegisteredEmail,
             password |-> hashPassword(RightPassword),
             status |-> "active",
             loginAttempts |-> 0,
             lockUntil |-> NoLock,
             lastLogin |-> NoTime]
  /\ pc = [r \in Requests |-> "idle"]
  /\ req = [r \in Requests |-> NoRequest]
  /\ snap = [r \in Requests |-> NoUser]
  /\ res = [r \in Requests |-> NoResponse]
  /\ guesses = 0
  /\ issued = TokenPair(user, 0)
  /\ rotated = {}
  /\ loggedOut = {}
  /\ sreq = NoSRequest
  /\ sres = NoSResponse
  /\ plain = <<>>
  /\ data = <<>>
  /\ calls = <<>>
  /\ out = NoResult
  /\ cycles = 0
  /\ AuxIdle

SessionNext ==
  \/ Refresh
  \/ Protected
  \/ SessionTick

SessionSpec == SessionInit /\ [][SessionNext]_vars

\* ---- a locked account and its session ----

\* five wrong passwords in the hour of registration have locked the
\* account; the client still holds the pair signed at registration
LockedInit ==
  /\ now = 0
  /\ user = [found |-> TRUE,
             email |-> RegisteredEmail,
             password |-> hashPassword(RightPassword),
             status |-> "active",
             loginAttempts |-> MaxLoginAttempts,
             lockUntil |-> LockTime,
             lastLogin |-> NoTime]
  /\ pc = [r \in Requests |-> "idle"]
  /\ req = [r \in Requests |-> NoRequest]
  /\ snap = [r \in Requests |-> NoUser]
  /\ res = [r \in Requests |-> NoResponse]
  /\ guesses = MaxLoginAttempts
  /\ issued = TokenPair(user, 0)
  /\ rotated = {}
  /\ loggedOut = {}
  /\ sreq = NoSRequest
  /\ sres = NoSResponse
  /\ plain = <<>>
  /\ data = <<>>
  /\ calls = <<>>
  /\ out = NoResult
  /\ cycles = 0
  /\ AuxIdle

\* the clock advances for as long as the lock lasts
LockedTick ==
  /\ isLocked(user, now + 1)
  /\ now' = now + 1
  /\ UNCHANGED <<user, pc, req, snap, res, guesses, sessionVars, cipherVars, auxVars>>

\* logins, refresh and the protected routes while the account is locked
LockedNext ==
  \/ \E r \in Requests : LoginFind(r)
  \/ Refresh
  \/ Protected
  \/ LockedTick

LockedSpec == LockedInit /\ [][LockedNext]_vars

\* ---- a caller of encrypt and decrypt ----

\* encrypt(data) is called and randomBytes returns iv
EncryptWith(iv) ==
  /\ Len(calls) < MaxCalls
  /\ calls' = Append(calls, [text |-> data, iv |-> iv, result |-> encrypt(data, iv)])
  /\ UNCHANGED <<plain, data, out, cycles>>
  /\ UNCHANGED <<now, user, pc, req, snap, res, guesses, sessionVars, auxVars>>

Encrypt == \E iv \in IVs : EncryptWith(iv)

\* decrypt is called on the blob of call i, and the caller goes on with the
\* string it returned
DecryptCall(i) ==
  /\ cycles < MaxCycles
  /\ calls[i].result.ok
  /\ out' = decrypt(calls[i].result.value)
  /\ data' = IF out'.ok THEN out'.value ELSE data
  /\ calls' = <<>>
  /\ cycles' = cycles + 1
  /\ UNCHANGED plain
  /\ UNCHANGED <<now, user, pc, req, snap, res, guesses, sessionVars, auxVars>>

Decrypt == \E i \in DOMAIN calls : DecryptCall(i)

\* the caller starts from any of Plaintexts
CipherInit ==
  /\ now = 0
  /\ user = [found |-> TRUE,
             email |-> RegisteredEmail,
             password |-> hashPassword(RightPassword),
             status |-> "active",
             loginAttempts |-> 0,
             lockUntil |-> NoLock,
             lastLogin |-> NoTime]
  /\ pc = [r \in Requests |-> "idle"]
  /\ req = [r \in Requests |-> NoRequest]
  /\ snap = [r \in Requests |-> NoUser]
  /\ res = [r \in Requests |-> NoResponse]
  /\ guesses = 0
  /\ issued = TokenPair(user, 0)
  /\ rotated = {}
  /\ loggedOut = {}
  /\ sreq = NoSRequest
  /\ sres = NoSResponse
  /\ plain \in Plaintexts
  /\ data = plain
  /\ calls = <<>>
  /\ out = NoResult
  /\ cycles = 0
  /\ AuxIdle

CipherNext ==
  \/ Encrypt
  \/ Decrypt

CipherSpec == CipherInit /\ [][CipherNext]_vars

\* ---- single calls of the utility functions ----

\* what callers hand to decrypt and isValidEncryptedFormat: a blob encrypt
\* returned, the blob with a second ':' and more text after it, the blob
\* without its ':', either half of it with the ':', a lone ':', no text
BlobInputs ==
  UNION {LET blob == encrypt(text, iv).value
             p == colonAfter(blob, 1)
         IN {blob,
             blob \o <<":", "0", "0">>,
             SubSeq(blob, 1, p - 1) \o SubSeq(blob, p + 1, Len(blob)),
             SubSeq(blob, 1, p),
             SubSeq(blob, p, Len(blob)),
             <<":">>,
             <<>>}
         : text \in Plaintexts \ {<<>>}, iv \in IVs}

\* what callers hand to secureCompare
CompareInputs ==
  {JsString(str) : str \in UNION {[1..n -> {"a", "A", "b"}] : n \in 0..MaxPlainLen}}
    \cup {JsNull, JsUndefined}

\* 72 characters
LongPrefix == [i \in 1..BcryptMaxBytes |-> "a"]

\* what callers hand to hashPassword and comparePassword: six characters,
\* five, none, null, and 72, 73 and 73 characters with the same first 72
PasswordInputs ==
  {JsString(<<"a", "a", "a", "a", "a", "a">>),
   JsString(<<"a", "a", "a", "a", "a", "b">>),
   JsString(<<"a", "a", "a", "a", "a">>),
   JsString(<<>>),
   JsNull,
   JsString(LongPrefix),
   JsString(LongPrefix \o <<"a">>),
   JsString(LongPrefix \o <<"b">>)}

\* the values ENCRYPTION_SECRET is started with: unset, 32 and 31 characters
EnvInputs == {"", "0123456789abcdef0123456789abcdef", "0123456789abcdef0123456789abcde"}

UtilCalls ==
  {Call("decrypt", JsString(str), JsUndefined, "") : str \in BlobInputs}
    \cup {Call("isValidEncryptedFormat", v, JsUndefined, "") :
            v \in {JsString(str) : str \in BlobInputs} \cup {JsNull, JsUndefined, JsNumber}}
    \cup {Call("secureCompare", a, b, "") : a \in CompareInputs, b \in CompareInputs}
    \cup {Call("loadModule", JsUndefined, JsUndefined, env) : env \in EnvInputs}
    \cup {Call("hashPassword", a, b, "") : a \in PasswordInputs, b \in PasswordInputs}

CallDecrypt ==
  /\ call.fn = "decrypt" /\ ~ret.done
  /\ ret' = LET x == decrypt(call.a.str) IN Ret(x.ok, x.value, FALSE, x.message)
  /\ UNCHANGED <<call, hashes, aadhaar, pres, frontVars, now, user, pc, req, snap, res, guesses, sessionVars, cipherVars>>

CallIsValidEncryptedFormat ==
  /\ call.fn = "isValidEncryptedFormat" /\ ~ret.done
  /\ ret' = Ret(TRUE, <<>>, isValidEncryptedFormat(call.a), <<>>)
  /\ UNCHANGED <<call, hashes, aadhaar, pres, frontVars, now, user, pc, req, snap, res, guesses, sessionVars, cipherVars>>

CallSecureCompare ==
  /\ call.fn = "secureCompare" /\ ~ret.done
  /\ ret' = Ret(TRUE, <<>>, secureCompare(call.a, call.b), <<>>)
  /\ UNCHANGED <<call, hashes, aadhaar, pres, frontVars, now, user, pc, req, snap, res, guesses, sessionVars, cipherVars>>

CallLoadModule ==
  /\ call.fn = "loadModule" /\ ~ret.done
  /\ ret' = loadModule(call.env)
  /\ UNCHANGED <<call, hashes, aadhaar, pres, frontVars, now, user, pc, req, snap, res, guesses, sessionVars, cipherVars>>

\* hashPassword(a) twice, drawing salts s1 and s2, then comparePassword of
\* a with both hashes and of b with the first
HashWith(s1, s2) ==
  /\ call.fn = "hashPassword" /\ ~ret.done
  /\ LET h1 == hashPasswordSalted(call.a, s1)
         h2 == hashPasswordSalted(call.a, s2)
     IN /\ ret' = IF h1 = NoHash
                  THEN Ret(FALSE, <<>>, FALSE, <<"Password", "rejected">>)
                  ELSE Ret(TRUE, <<>>, FALSE, <<>>)
        /\ hashes' = [h1 |-> h1, h2 |-> h2,
                      same1 |-> comparePasswordHashed(call.a, h1),
                      same2 |-> comparePasswordHashed(call.a, h2),
                      other1 |-> comparePasswordHashed(call.b, h1)]
  /\ UNCHANGED <<call, aadhaar, pres, frontVars, now, user, pc, req, snap, res, guesses, sessionVars, cipherVars>>

CallHashPassword == \E s1 \in Salts, s2 \in Salts : HashWith(s1, s2)

\* one call, with any of the inputs above
UtilInit ==
  /\ now = 0
  /\ user = [found |-> TRUE,
             email |-> RegisteredEmail,
             password |-> hashPassword(RightPassword),
             status |-> "active",
             loginAttempts |-> 0,
             lockUntil |-> NoLock,
             lastLogin |-> NoTime]
  /\ pc = [r \in Requests |-> "idle"]
  /\ req = [r \in Requests |-> NoRequest]
  /\ snap = [r \in Requests |-> NoUser]
  /\ res = [r \in Requests |-> NoResponse]
  /\ guesses = 0
  /\ issued = TokenPair(user, 0)
  /\ rotated = {}
  /\ loggedOut = {}
  /\ sreq = NoSRequest
  /\ sres = NoSResponse
  /\ plain = <<>>
  /\ data = <<>>
  /\ calls = <<>>
  /\ out = NoResult
  /\ cycles = 0
  /\ call \in UtilCalls
  /\ ret = NotReturned
  /\ hashes = NoHashes
  /\ aadhaar = NoAadhaar
  /\ pres = NoPResponse
  /\ fe = NoFrontend
  /\ auth = initialState
  /\ dispatched = NoAction

UtilNext ==
  \/ CallDecrypt
  \/ CallIsValidEncryptedFormat
  \/ CallSecureCompare
  \/ CallLoadModule
  \/ CallHashPassword

UtilSpec == UtilInit /\ [][UtilNext]_vars

\* ---- register, login and the profile routes, as they save the document ----

\* the numbers callers supply: 12 digits
Aadhaars == {[i \in 1..12 |-> HexDigits[((i + k) % 10) + 1]] : k \in 1..NumAadhaars}

\* what arrives in the aadhaarNumber field of a body: a number, a number
\* of 11 digits, nothing, and the stored blob itself
AadhaarInputs ==
  Aadhaars \cup {SubSeq(a, 1, 11) : a \in Aadhaars} \cup {<<>>, aadhaar.stored}

\* the document is stored and active: findById finds it and authenticate
\* lets the request through
Registered == aadhaar.stored # <<>>

\* register, lines 20-118, with aadhaarNumber a
RegisterWith(a, iv) ==
  /\ ~Registered
  /\ IF a = <<>> \/ ~isTwelveDigits(a)
     THEN /\ pres' = PResponse("register", 400)
          /\ UNCHANGED aadhaar
     ELSE /\ pres' = PResponse("register", 201)
          /\ aadhaar' = [stored |-> preSave(a, TRUE, FALSE, iv),
                         first |-> a, supplied |-> a]
  /\ UNCHANGED <<call, ret, hashes, frontVars, now, user, pc, req, snap, res, guesses,
                 sessionVars, cipherVars>>

Register == \E a \in AadhaarInputs, iv \in IVs : RegisterWith(a, iv)

\* login, lines 149-200, served alone: the right password sets lastLogin
\* and saves the document
ProfileLoginWith(pw, iv) ==
  /\ Registered
  /\ IF user.status # "active" \/ ~comparePassword(pw, user.password)
     THEN /\ pres' = PResponse("login", 401)
          /\ UNCHANGED <<aadhaar, user>>
     ELSE /\ pres' = PResponse("login", 200)
          /\ user' = [user EXCEPT !.lastLogin = now]
          /\ aadhaar' = [aadhaar EXCEPT
                           !.stored = preSave(aadhaar.stored, FALSE, FALSE, iv)]
  /\ UNCHANGED <<call, ret, hashes, frontVars, now, pc, req, snap, res, guesses,
                 sessionVars, cipherVars>>

ProfileLogin == \E pw \in Passwords \cup {NewPassword}, iv \in IVs : ProfileLoginWith(pw, iv)

\* updateProfile (part_006, lines 52-135) with a new name: name is set and
\* the document saved
UpdateProfileWith(iv) ==
  /\ Registered /\ user.status = "active"
  /\ pres' = PResponse("updateProfile", 200)
  /\ aadhaar' = [aadhaar EXCEPT
                   !.stored = preSave(aadhaar.stored, FALSE, FALSE, iv)]
  /\ UNCHANGED <<call, ret, hashes, frontVars, now, user, pc, req, snap, res, guesses,
                 sessionVars, cipherVars>>

UpdateProfile == \E iv \in IVs : UpdateProfileWith(iv)

\* updateAadhaar (part_006, lines 142-209) with aadhaarNumber a and
\* currentPassword pw
UpdateAadhaarWith(a, pw, iv) ==
  /\ Registered /\ user.status = "active"
  /\ IF a = <<>> \/ ~isTwelveDigits(a)
     THEN /\ pres' = PResponse("updateAadhaar", 400)
          /\ UNCHANGED aadhaar
     ELSE IF ~comparePassword(pw, user.password)
     THEN /\ pres' = PResponse("updateAadhaar", 401)
          /\ UNCHANGED aadhaar
     ELSE IF getDecryptedAadhaar(aadhaar.stored) = a
     THEN /\ pres' = PResponse("updateAadhaar", 400)
          /\ UNCHANGED aadhaar
     ELSE /\ pres' = PResponse("updateAadhaar", 200)
          /\ aadhaar' = [aadhaar EXCEPT
                           !.stored = preSave(a, FALSE, TRUE, iv),
                           !.supplied = a]
  /\ UNCHANGED <<call, ret, hashes, frontVars, now, user, pc, req, snap, res, guesses,
                 sessionVars, cipherVars>>

UpdateAadhaar ==
  \E a \in AadhaarInputs, pw \in Passwords, iv \in IVs : UpdateAadhaarWith(a, pw, iv)

\* changePassword (part_006, lines 215-276) to NewPassword
ChangePasswordWith(pw, iv) ==
  /\ Registered /\ user.status = "active"
  /\ IF ~comparePassword(pw, user.password)
     THEN /\ pres' = PResponse("changePassword", 401)
          /\ UNCHANGED <<aadhaar, user>>
     ELSE IF comparePassword(NewPassword, user.password)
     THEN /\ pres' = PResponse("changePassword", 400)
          /\ UNCHANGED <<aadhaar, user>>
     ELSE /\ pres' = PResponse("changePassword", 200)
          /\ user' = [user EXCEPT !.password = hashPassword(NewPassword)]
          /\ aadhaar' = [aadhaar EXCEPT
                           !.stored = preSave(aadhaar.stored, FALSE, FALSE, iv)]
  /\ UNCHANGED <<call, ret, hashes, frontVars, now, pc, req, snap, res, guesses,
                 sessionVars, cipherVars>>

ChangePassword == \E pw \in Passwords \cup {NewPassword}, iv \in IVs : ChangePasswordWith(pw, iv)

\* deleteAccount (part_006, lines 285-328) with password pw
ProfileDeleteWith(pw, iv) ==
  /\ Registered /\ user.status = "active"
  /\ IF ~comparePassword(pw, user.password)
     THEN /\ pres' = PResponse("deleteAccount", 401)
          /\ UNCHANGED <<aadhaar, user>>
     ELSE /\ pres' = PResponse("deleteAccount", 200)
          /\ user' = [user EXCEPT !.status = "inactive",
                                  !.email = deletedEmail(now, user.email)]
          /\ aadhaar' = [aadhaar EXCEPT
                           !.stored = preSave(aadhaar.stored, FALSE, FALSE, iv)]
  /\ UNCHANGED <<call, ret, hashes, frontVars, now, pc, req, snap, res, guesses,
                 sessionVars, cipherVars>>

ProfileDelete == \E pw \in Passwords \cup {NewPassword}, iv \in IVs : ProfileDeleteWith(pw, iv)

\* the register request has not been served yet
ProfileInit ==
  /\ now = 0
  /\ user = [found |-> TRUE,
             email |-> RegisteredEmail,
             password |-> hashPassword(RightPassword),
             status |-> "active",
             loginAttempts |-> 0,
             lockUntil |-> NoLock,
             lastLogin |-> NoTime]
  /\ pc = [r \in Requests |-> "idle"]
  /\ req = [r \in Requests |-> NoRequest]
  /\ snap = [r \in Requests |-> NoUser]
  /\ res = [r \in Requests |-> NoResponse]
  /\ guesses = 0
  /\ issued = TokenPair(user, 0)
  /\ rotated = {}
  /\ loggedOut = {}
  /\ sreq = NoSRequest
  /\ sres = NoSResponse
  /\ plain = <<>>
  /\ data = <<>>
  /\ calls = <<>>
  /\ out = NoResult
  /\ cycles = 0
  /\ AuxIdle

ProfileNext ==
  \/ Register
  \/ ProfileLogin
  \/ UpdateProfile
  \/ UpdateAadhaar
  \/ ChangePassword
  \/ ProfileDelete

ProfileSpec == ProfileInit /\ [][ProfileNext]_vars

\* ---- ApiService: a request and its response interceptor ----

Top == fe.stack[Len(fe.stack)]

Pop(stack) == SubSeq(stack, 1, Len(stack) - 1)

ReplaceTop(stack, f) == Append(Pop(stack), f)

FrontUnchanged ==
  UNCHANGED <<call, ret, hashes, aadhaar, pres, auth, dispatched, now, user, pc,
              req, snap, res, guesses, sessionVars, cipherVars>>

\* setTokens, lines 82-85, as login and register call it
SetTokens ==
  /\ fe.stack = <<>> /\ fe.signal = "none"
  /\ ~fe.stored
  /\ fe' = [fe EXCEPT !.stored = TRUE]
  /\ FrontUnchanged

\* clearTokens, lines 95-98, as logout calls it
ClearTokens ==
  /\ fe.stack = <<>> /\ fe.signal = "none"
  /\ fe.stored
  /\ fe' = [fe EXCEPT !.stored = FALSE]
  /\ FrontUnchanged

\* a caller sends a request for url through the axios instance
SendTo(url) ==
  /\ fe.stack = <<>> /\ fe.signal = "none"
  /\ fe' = [fe EXCEPT !.stack = <<Frame(url, FALSE, "sent")>>,
                      !.outcome = "pending",
                      !.refreshCalls = 0,
                      !.retries = 0,
                      !.location = "/"]
  /\ FrontUnchanged

\* the server answers the request on top with status; a 2xx resolves its
\* promise, anything else runs the response interceptor, lines 46-77
AnswerWith(status) ==
  /\ fe.stack # <<>> /\ fe.signal = "none"
  /\ Top.at = "sent"
  /\ IF status = 200
     THEN fe' = [fe EXCEPT !.stack = Pop(@), !.signal = "resolved"]
     ELSE IF status = 401 /\ ~Top.retry
     THEN IF fe.stored
          THEN /\ Len(fe.stack) < MaxDepth
               /\ fe' = [fe EXCEPT
                           !.stack = Append(ReplaceTop(@, Frame(Top.url, TRUE, "refreshing")),
                                            Frame(UrlRefresh, FALSE, "sent")),
                           !.refreshCalls = @ + 1]
          ELSE fe' = [fe EXCEPT !.stack = Pop(@), !.signal = "rejected",
                                !.location = "/login"]
     ELSE fe' = [fe EXCEPT !.stack = Pop(@), !.signal = "rejected"]
  /\ FrontUnchanged

Send == \E url \in CallerUrls : SendTo(url)

Answer == \E status \in Statuses : AnswerWith(status)

\* the promise the interceptor awaits has settled: lines 57-70 after
\* refreshAuthToken, or the retried request handing its result on
Deliver ==
  /\ fe.stack # <<>> /\ fe.signal # "none"
  /\ IF Top.at = "refreshing"
     THEN IF fe.signal = "resolved"
          THEN fe' = [fe EXCEPT
                        !.stored = TRUE,
                        !.stack = Append(ReplaceTop(@, Frame(Top.url, TRUE, "retrying")),
                                         Frame(Top.url, TRUE, "sent")),
                        !.retries = @ + 1,
                        !.signal = "none"]
          ELSE fe' = [fe EXCEPT !.stored = FALSE, !.location = "/login",
                                !.stack = Pop(@)]
     ELSE fe' = [fe EXCEPT !.stack = Pop(@)]
  /\ FrontUnchanged

\* the caller's promise settles
Settle ==
  /\ fe.stack = <<>> /\ fe.signal # "none"
  /\ fe' = [fe EXCEPT !.outcome = fe.signal, !.signal = "none"]
  /\ FrontUnchanged

InterceptNext ==
  \/ SetTokens
  \/ ClearTokens
  \/ Send
  \/ Answer
  \/ Deliver
  \/ Settle

InterceptSpec == Init /\ [][InterceptNext]_vars

\* ---- AuthProvider: actions dispatched to the reducer ----

\* what dispatch leaves alone
ReducerUnchanged ==
  UNCHANGED <<call, ret, hashes, aadhaar, pres, now, user, pc, req, snap,
              res, guesses, sessionVars, cipherVars>>

\* dispatch({ type: 'AUTH_START' }), lines 124, 152, 178
AuthStart ==
  /\ dispatched' = AuthAction("AUTH_START", Null, Null, FALSE)
  /\ auth' = authReducer(auth, dispatched')
  /\ UNCHANGED fe
  /\ ReducerUnchanged

\* dispatch({ type: 'AUTH_SUCCESS', payload: { user, token } }): login and
\* register store the tokens first (lines 158, 184), initAuth found them
\* stored (lines 120-131)
AuthSuccessWith(u, tk, fresh) ==
  /\ fresh \/ fe.stored
  /\ fe' = [fe EXCEPT !.stored = TRUE]
  /\ dispatched' = AuthAction("AUTH_SUCCESS", u, tk, FALSE)
  /\ auth' = authReducer(auth, dispatched')
  /\ ReducerUnchanged

AuthSuccess ==
  \E u \in Users, tk \in Tokens, fresh \in BOOLEAN : AuthSuccessWith(u, tk, fresh)

\* dispatch({ type: 'AUTH_FAILURE' }): initAuth clears the tokens first
\* (lines 134-140), login and register do not (lines 171, 197)
AuthFailureWith(clear) ==
  /\ fe' = [fe EXCEPT !.stored = IF clear THEN FALSE ELSE @]
  /\ dispatched' = AuthAction("AUTH_FAILURE", Null, Null, FALSE)
  /\ auth' = authReducer(auth, dispatched')
  /\ ReducerUnchanged

AuthFailure == \E clear \in BOOLEAN : AuthFailureWith(clear)

\* logout, lines 202-213: clearTokens, then dispatch({ type: 'LOGOUT' })
Logout ==
  /\ fe' = [fe EXCEPT !.stored = FALSE]
  /\ dispatched' = AuthAction("LOGOUT", Null, Null, FALSE)
  /\ auth' = authReducer(auth, dispatched')
  /\ ReducerUnchanged

\* dispatch({ type: 'UPDATE_USER', payload: user })
UpdateUserWith(u) ==
  /\ dispatched' = AuthAction("UPDATE_USER", u, Null, FALSE)
  /\ auth' = authReducer(auth, dispatched')
  /\ UNCHANGED fe
  /\ ReducerUnchanged

UpdateUser == \E u \in Users : UpdateUserWith(u)

\* dispatch({ type: 'SET_LOADING', payload: flag })
SetLoadingWith(flag) ==
  /\ dispatched' = AuthAction("SET_LOADING", Null, Null, flag)
  /\ auth' = authReducer(auth, dispatched')
  /\ UNCHANGED fe
  /\ ReducerUnchanged

SetLoading == \E flag \in BOOLEAN : SetLoadingWith(flag)

ReducerNext ==
  \/ AuthStart
  \/ AuthSuccess
  \/ AuthFailure
  \/ Logout
  \/ UpdateUser
  \/ SetLoading

ReducerSpec == Init /\ [][ReducerNext]_vars

\* ---- steps of a request, as seen on a pair of states ----

\* request r leaves bcrypt with a wrong password and is answered
FailedAttempt(r) == pc[r] = "comparing" /\ pc'[r] = "done"

\* request r leaves bcrypt with the right password
PasswordAccepted(r) == pc[r] = "comparing" /\ pc'[r] = "saving"

\* request r is answered 200
LoginSucceeds(r) == pc[r] = "saving" /\ pc'[r] = "done"

C2_LockedAttemptRejectedUnchanged ==
  [][\A r \in Requests, pw \in Passwords :
       (LoginFindWith(r, user.email, pw)
          /\ user.lockUntil # NoLock /\ now < user.lockUntil) =>
         /\ pc'[r] = "done"
         /\ res'[r] = Response(423, MsgLocked, FALSE)
         /\ snap'[r] = NoUser
         /\ user' = user]_vars

\* a request has been turned away from a locked account
C2_Witness ==
  \E r \in Requests :
    /\ pc[r] = "done" /\ res[r].status = 423
    /\ user.lockUntil # NoLock /\ now < user.lockUntil
    /\ user.loginAttempts = MaxLoginAttempts

\* ---- C3 ----
\* C3: a login for an active account whose lockUntil is set and
\* now >= lockUntil is not turned away as locked and goes on to password
\* comparison, and a wrong password then leaves loginAttempts = 1 and
\* lockUntil unset.
C3_ExpiredLockRestartsAtOne ==
  [][\A r \in Requests :
       /\ \A pw \in Passwords :
            (LoginFindWith(r, user.email, pw) /\ user.status = "active"
               /\ user.lockUntil # NoLock /\ now >= user.lockUntil) =>
              pc'[r] = "comparing"
       /\ (FailedAttempt(r) /\ user.lockUntil # NoLock /\ now >= user.lockUntil) =>
            (user'.loginAttempts = 1 /\ user'.lockUntil = NoLock)]_vars

C5_ThresholdImpliesLock ==
  Quiescent => (user.loginAttempts >= MaxLoginAttempts => user.lockUntil # NoLock)

\* ---- C6 ----
\* C6: no failed attempt is lost: every failed attempt leaves loginAttempts
\* at least at the value the same attempt, run alone on the stored
\* document, would leave.
C6_NoFailedAttemptLost ==
  [][\A r \in Requests :
       FailedAttempt(r) =>
         user'.loginAttempts >=
           IF user.lockUntil # NoLock /\ user.lockUntil < now
           THEN 1
           ELSE user.loginAttempts + 1]_vars

\* ---- C7 ----
\* C7: at most 5 wrong-password logins are verified and answered in a row
\* with no successful login and no lock expiry between them.
C7_AtMostFiveGuesses == guesses <= MaxLoginAttempts

\* ---- C8 ----
\* C8: lockUntil is set only if loginAttempts >= 5.
C8_LockOnlyAtThreshold ==
  user.lockUntil # NoLock => user.loginAttempts >= MaxLoginAttempts

\* ---- C9 ----
\* C9: a login for an email that matches no document, or for a document
\* whose status is not active, is answered 401 at once, locked or not,
\* without tokens and without a change to the stored document.
C9_UnknownOrInactiveIsRejected401 ==
  [][\A r \in Requests, e \in Emails, pw \in Passwords :
       (LoginFindWith(r, e, pw) /\ (e # user.email \/ user.status # "active")) =>
         /\ pc'[r] = "done"
         /\ res'[r].status = 401
         /\ ~res'[r].tokens
         /\ user' = user]_vars

\* ---- C10 ----
\* C10: any two logins answered 401 carry the same message, whether the
\* email was unknown, the account inactive or the password wrong.
C10_FailedLoginsIndistinguishable ==
  \A r1, r2 \in Requests :
    (pc[r1] = "done" /\ pc[r2] = "done"
       /\ res[r1].status = 401 /\ res[r2].status = 401) =>
      res[r1] = res[r2]

\* ---- C11 ----
\* C11: a login answered 423 carries the lockUntil of the account in its
\* body.
C11_LockedResponseCarriesLockUntil ==
  \A r \in Requests :
    (pc[r] = "done" /\ res[r].status = 423) => res[r].lockedUntil # NoLock

\* ---- C12 ----
\* C12: a token signed by generateRefreshToken is never accepted by
\* verifyToken, a token signed by generateToken is never accepted by
\* verifyRefreshToken, and no token is accepted by both.
C12_TokenScoping ==
  \A tk \in SessionTokens :
    /\ (tk.key = JWT_SECRET /\ tk.type = "refresh") => ~verifyToken(tk, now).ok
    /\ (tk.key = JWT_SECRET /\ tk.type # "refresh") => ~verifyRefreshToken(tk, now).ok
    /\ ~(verifyToken(tk, now).ok /\ verifyRefreshToken(tk, now).ok)

\* an unexpired refresh token of the active account was sent to a protected
\* route and turned away
C12_Witness ==
  /\ sreq.op \in ProtectedOps
  /\ sreq.token \in issued
  /\ sreq.token.type = "refresh"
  /\ now < sreq.token.exp
  /\ user.status = "active"
  /\ sres.status = 401
  /\ ~sreq.reached

\* ---- C13 ----
\* C13: a refresh whose token is expired, carries a bad signature or is not
\* a refresh token is answered 401 'Invalid or expired refresh token.
\* Please login again.' and issues nothing.
C13_FailingRefreshIs401 ==
  [][(sreq'.op = "refresh" /\ RefreshWith(sreq'.token)
        /\ (sreq'.token.key # JWT_SECRET \/ now >= sreq'.token.exp
              \/ sreq'.token.type # "refresh")) =>
       /\ sres' = SResponse(401, MsgRefreshFailed, {})
       /\ issued' = issued]_vars

\* ---- C14 ----
\* C14: refresh answers with a new pair only when the token is an
\* unexpired refresh token the server signed for the account and the
\* account is stored with status active at that time.
C14_RefreshOnlyForActiveAccount ==
  [][(sreq'.op = "refresh" /\ RefreshWith(sreq'.token)
        /\ (sres'.pair # {} \/ sres'.status = 200 \/ issued' # issued)) =>
       /\ sreq'.token.key = JWT_SECRET
       /\ sreq'.token.type = "refresh"
       /\ now < sreq'.token.exp
       /\ sreq'.token.userId = UserId
       /\ user.status = "active"]_vars

\* an unexpired refresh token of the account was refused after the account
\* was deactivated
C14_Witness ==
  /\ sreq.op = "refresh"
  /\ sreq.token \in issued
  /\ sreq.token.type = "refresh"
  /\ now < sreq.token.exp
  /\ user.status = "inactive"
  /\ sres = SResponse(401, MsgRefreshNoUser, {})

C16_LogoutInvalidatesTokens ==
  [][sreq'.token \in loggedOut =>
       /\ (sreq'.op = "refresh" /\ RefreshWith(sreq'.token)) => sres'.status # 200
       /\ \A pw \in Passwords :
            (sreq'.op \in ProtectedOps /\ ProtectedWith(sreq'.token, sreq'.op, pw)) =>
              ~sreq'.reached]_vars

\* ---- C17 ----
\* C17: an access token signed at t is accepted by verifyToken at every
\* time before t + 24h and rejected as expired from t + 24h on; a refresh
\* token signed at t is accepted by verifyRefreshToken exactly before
\* t + 7d.
C17_TokenLifetimes ==
  \A tk \in issued :
    /\ tk.iat <= now
    /\ tk.type # "refresh" =>
         /\ verifyToken(tk, now).ok <=> now < tk.iat + JWT_EXPIRE
         /\ now >= tk.iat + JWT_EXPIRE =>
              verifyToken(tk, now).message = <<"Token", "has", "expired">>
    /\ tk.type = "refresh" =>
         (verifyRefreshToken(tk, now).ok <=> now < tk.iat + REFRESH_EXPIRE)

\* the access token signed at registration was turned away as expired in
\* the very hour it expired
C17_Witness ==
  /\ sreq.op \in ProtectedOps
  /\ sreq.token \in issued
  /\ sreq.token.type # "refresh"
  /\ now = sreq.token.iat + JWT_EXPIRE
  /\ sres = SResponse(401, MsgTokenExpired, {})

\* ---- C18 ----
\* C18: a protected request gets past authenticate only with an unexpired
\* access token the server signed for the account, and only while the
\* account is stored with status active; once deleteAccount has
\* deactivated the account its access tokens are turned away.
C18_ProtectedOnlyForActiveAccount ==
  [][\A pw \in Passwords :
       (sreq'.op \in ProtectedOps /\ ProtectedWith(sreq'.token, sreq'.op, pw)
          /\ (sreq'.reached \/ sres'.status # 401)) =>
         /\ sreq'.token.key = JWT_SECRET
         /\ sreq'.token.type # "refresh"
         /\ now < sreq'.token.exp
         /\ sreq'.token.userId = UserId
         /\ user.status = "active"]_vars

\* an unexpired access token of the account was turned away after
\* deleteAccount
C18_Witness ==
  /\ sreq.op \in ProtectedOps
  /\ sreq.token \in issued
  /\ sreq.token.type # "refresh"
  /\ now < sreq.token.exp
  /\ user.status = "inactive"
  /\ sres = SResponse(401, MsgAuthInactive, {})
  /\ ~sreq.reached

\* ---- C19 ----
\* C19: for every non-empty plaintext and every IV, decrypt returns the
\* string encrypt was called with, and a value taken through any number
\* of encrypt/decrypt cycles is still the string the caller started from.
C19_RoundTripEveryPlaintext ==
  [][\A i \in DOMAIN calls :
       (DecryptCall(i) /\ calls[i].text # <<>>) =>
         /\ out' = Returned(calls[i].text)
         /\ data' = plain]_vars

\* C19, amended: the same for every non-empty plaintext that is well-formed
\* UTF-16, that is, has no surrogate without its partner.
C19_RoundTripWellFormed ==
  [][\A i \in DOMAIN calls :
       (DecryptCall(i) /\ calls[i].text # <<>> /\ isWellFormed(calls[i].text)) =>
         /\ out' = Returned(calls[i].text)
         /\ isWellFormed(plain) => data' = plain]_vars

\* a surrogate pair has gone through MaxCycles cycles and come back
C19_Witness ==
  /\ cycles = MaxCycles
  /\ plain = <<55357, 56832>>
  /\ out = Returned(plain)
  /\ data = plain

C21_DecryptRequiresOneColon ==
  (call.fn = "decrypt" /\ ret.done
     /\ (\/ splitLength(call.a.str) # 2
         \/ call.a.str[1] = ":"
         \/ call.a.str[Len(call.a.str)] = ":")) =>
    /\ ~ret.ok
    /\ ret.message \in {MsgFormat, MsgFailed \o MsgFormat}

\* ---- C22 ----
\* C22: loading the module throws exactly when the configured key is not
\* 32 characters long, and with ENCRYPTION_SECRET unset it loads with the
\* default key.
C22_StartupRequires32CharKey ==
  (call.fn = "loadModule" /\ ret.done) =>
    /\ call.env # "" => (ret.ok <=> Len(call.env) = 32)
    /\ call.env = "" => ret.ok

\* ---- C23 ----
\* C23: isValidEncryptedFormat is true for every blob encrypt returns, and
\* false for a value that is not a string, a string without ':', a string
\* with more than one ':', and the string ':'.
C23_IsValidEncryptedFormat ==
  (call.fn = "isValidEncryptedFormat" /\ ret.done) =>
    /\ (call.a.type = "string"
          /\ \E text \in Plaintexts, iv \in IVs :
               encrypt(text, iv).ok /\ encrypt(text, iv).value = call.a.str) => ret.flag
    /\ (\/ call.a.type # "string"
        \/ splitLength(call.a.str) # 2
        \/ call.a.str = <<":">>) => ~ret.flag

\* ---- C24 ----
\* C24: secureCompare is true exactly when both arguments are strings with
\* the same characters, two empty strings included.
C24_SecureCompareIsEquality ==
  (call.fn = "secureCompare" /\ ret.done) =>
    (ret.flag <=> (call.a.type = "string" /\ call.b.type = "string"
                     /\ call.a.str = call.b.str))

\* ---- C25 ----
\* C25: for a password of at least 6 characters, two calls of hashPassword
\* give different hashes, comparePassword of the password with either hash
\* is true, and comparePassword of any other password with the hash is
\* false.
C25_HashesDifferAndMatchOnlyThePassword ==
  (call.fn = "hashPassword" /\ ret.done
     /\ call.a.type = "string" /\ Len(call.a.str) >= 6) =>
    /\ hashes.h1 # hashes.h2
    /\ hashes.same1
    /\ hashes.same2
    /\ call.b # call.a => ~hashes.other1

\* ---- C26 ----
\* C26: once the account is registered, the stored aadhaarNumber is always
\* a blob of 32 hex digits, ':' and hex ciphertext that decrypts in one
\* step to the 12 digits register or the last updateAadhaar supplied.
C26_StoredAadhaarIsOneLayerOfCiphertext ==
  aadhaar.stored # <<>> =>
    /\ Len(aadhaar.supplied) = 12
    /\ aadhaar.stored # aadhaar.supplied
    /\ Len(aadhaar.stored) > 2 * BlockSize + 1
    /\ aadhaar.stored[2 * BlockSize + 1] = ":"
    /\ \A k \in 1..Len(aadhaar.stored) :
         k # 2 * BlockSize + 1 => isHexDigit(aadhaar.stored[k])
    /\ decrypt(aadhaar.stored).ok
    /\ toChars(decrypt(aadhaar.stored).value) = aadhaar.supplied

\* the number was replaced by updateAadhaar and a later login or password
\* change saved the document again
C26_Witness ==
  /\ aadhaar.stored # <<>>
  /\ aadhaar.supplied # aadhaar.first
  /\ pres.op \in {"login", "changePassword"}
  /\ pres.status = 200

\* ---- C27 ----
\* C27: no lock is permanent.  A lockUntil that is set is never more than
\* LockTime after the current time; a login with the right password for the
\* active account whose lockUntil has been reached is not turned away; and
\* a login whose password bcrypt accepts is answered 200 with tokens.
C27_NoLockIsPermanent ==
  /\ [](user.lockUntil # NoLock => user.lockUntil <= now + LockTime)
  /\ [][\A r \in Requests :
          (LoginFindWith(r, user.email, RightPassword) /\ user.status = "active"
             /\ user.lockUntil # NoLock /\ now >= user.lockUntil) =>
            pc'[r] = "comparing"]_vars
  /\ \A r \in Requests :
       (pc[r] = "comparing" /\ comparePassword(req[r].password, snap[r].password))
         ~> (pc[r] = "done" /\ res[r] = Response(200, MsgLoginOk, TRUE))

\* the lock of the account has run out and a login with the right password
\* has passed the lock test and the password comparison
C27_Witness ==
  \E r \in Requests :
    /\ pc[r] = "saving"
    /\ req[r].password = RightPassword
    /\ snap[r].lockUntil # NoLock /\ now >= snap[r].lockUntil
    /\ snap[r].status = "active"

\* ---- C28 ----
\* C28: a request of the frontend causes at most one call of /auth/refresh
\* and at most one retry before its promise settles.
C28_AtMostOneRefreshAndOneRetry ==
  fe.refreshCalls <= 1 /\ fe.retries <= 1

\* ---- C29 ----
\* C29: whatever actions the reducer has handled, isAuthenticated implies
\* that user and token are not null, and right after LOGOUT or
\* AUTH_FAILURE user and token are null and isAuthenticated and isLoading
\* are false.
C29_AuthStateConsistent ==
  /\ auth.isAuthenticated => (auth.user # Null /\ auth.token # Null)
  /\ dispatched.type \in {"LOGOUT", "AUTH_FAILURE"} =>
       auth = [user |-> Null, token |-> Null,
               isAuthenticated |-> FALSE, isLoading |-> FALSE]

\* the user object of an authenticated session has been replaced by
\* UPDATE_USER
C29_Witness ==
  /\ auth.isAuthenticated
  /\ dispatched.type = "UPDATE_USER"
  /\ auth.user = dispatched.user
  /\ auth.token # Null

\* ---- C30 ----
\* C30: while the account is locked, a refresh with an unexpired refresh
\* token of the active account is answered 200 with a new pair, a protected
\* request with an unexpired access token of the active account gets past
\* authenticate, and neither step changes loginAttempts or lockUntil.
C30_LockGatesOnlyLogin ==
  [][/\ (isLocked(user, now) /\ sreq'.op = "refresh" /\ RefreshWith(sreq'.token)) =>
          /\ user'.loginAttempts = user.loginAttempts
          /\ user'.lockUntil = user.lockUntil
          /\ (verifyRefreshToken(sreq'.token, now).ok /\ sreq'.token.userId = UserId
                /\ user.status = "active") =>
               (sres'.status = 200 /\ sres'.pair = TokenPair(user, now))
     /\ \A pw \in Passwords :
          (isLocked(user, now) /\ sreq'.op \in ProtectedOps
             /\ ProtectedWith(sreq'.token, sreq'.op, pw)) =>
            /\ user'.loginAttempts = user.loginAttempts
            /\ user'.lockUntil = user.lockUntil
            /\ (verifyToken(sreq'.token, now).ok /\ sreq'.token.userId = UserId
                  /\ user.status = "active") => sreq'.reached]_vars

\* the locked account has turned a login away with 423 and has answered a
\* refresh with a new pair
C30_Witness ==
  /\ isLocked(user, now)
  /\ user.loginAttempts >= MaxLoginAttempts
  /\ \E r \in Requests : res[r] = Response(423, MsgLocked, FALSE)
  /\ sreq.op = "refresh"
  /\ sres.status = 200
  /\ sres.pair = TokenPair(user, now)
====
